---------------------------- MODULE Spec2Model ----------------------------
(***************************************************************************)
(* Model of the Cocoa table widget backend,                                *)
(* src/cocoa/toga_cocoa/widgets/table.py: the TogaTable data source and    *)
(* delegate callbacks and the Table implementation object (column          *)
(* management, mutation forwarding, selection).                            *)
(*                                                                         *)
(* The native NSTableView is modelled by what the backend calls on it:     *)
(* its ordered list of NSTableColumn objects, its selected row indexes,    *)
(* and the log of the calls (reloadData, sizeToFit, scrollRowToVisible)    *)
(* the operation under way has issued.  The interface object is modelled   *)
(* by the attributes the backend reads and writes (data, multiple_select,  *)
(* missing_value, on_select, _selection).                                  *)
(***************************************************************************)
EXTENDS Integers, Sequences, FiniteSets, TLC

(***************************************************************************)
(* Bounds of the model.                                                    *)
(***************************************************************************)
MaxCols == 3
MaxInitCols == 2
MaxRows == 3
MaxRenderRows == 1

Accessors == {"name", "age"}
Headings == {"Name", "Age"}

VARIABLES
    columns,             \* Table.columns: the tracked list of NSTableColumn objects
    column_identifiers,  \* Table.column_identifiers: accessor -> ObjC identifier
    tableColumns,        \* the native table's own columns, in order
    nativeCalls,         \* calls issued to the native table by the last operation
    lastOp,              \* the last operation called, its arguments and what it raised
    prevOp,              \* the name of the operation called before the last one
    pre,                 \* the column state before the last operation was called
    data,                \* interface.data: the rows, each a map of its attributes
    missing_value,       \* interface.missing_value: configured value, or unset
    row_impl,            \* per row: the _impl cache, identifier chars -> TogaData object
    heap,                \* the TogaData objects allocated so far: object -> attrs
    ret,                 \* what the last data source callback returned
    multiple_select,     \* interface.multiple_select
    on_select,           \* interface.on_select: the bound handler, or None
    selection,           \* interface._selection
    selectedRowIndexes,  \* the native table's selected row indexes
    selectedRow,         \* the native table's selectedRow (-1: none)
    handlerCalls         \* invocations of selection handlers by the last notification

colVars == <<columns, column_identifiers, tableColumns>>
renderVars == <<row_impl, heap, ret>>
ifaceVars == <<data, missing_value, multiple_select, on_select>>
selVars == <<selection, selectedRowIndexes, selectedRow, handlerCalls>>
vars == <<columns, column_identifiers, tableColumns, nativeCalls, lastOp, prevOp, pre,
          data, missing_value, row_impl, heap, ret,
          multiple_select, on_select, selection, selectedRowIndexes,
          selectedRow, handlerCalls>>

None == [t |-> "None"]

(***************************************************************************)
(* rubicon.objc.at(accessor): the ObjC string made from a Python string,   *)
(* and str(identifier): the Python string read back from it.               *)
(***************************************************************************)
at(s) == [objc |-> "NSString", chars |-> s]

str_objc(x) == x.chars

(***************************************************************************)
(* Sequence helpers for list.append / list.remove and the native table.    *)
(***************************************************************************)
Range(s) == {s[i] : i \in 1..Len(s)}

RemoveAt(s, i) == SubSeq(s, 1, i - 1) \o SubSeq(s, i + 1, Len(s))

IndexOf(s, x) ==
    IF \E i \in 1..Len(s) : s[i] = x
    THEN CHOOSE i \in 1..Len(s) : s[i] = x /\ \A j \in 1..(i - 1) : s[j] # x
    ELSE 0

\* list.remove(x): drops the first element equal to x
ListRemove(s, x) == RemoveAt(s, IndexOf(s, x))

\* A column the native table does not hold: nil
Nil == [id |-> 0]

\* NSTableColumn.alloc(): a new object, distinct from every live column
FreshColumnId(cols, tcols) ==
    CHOOSE n \in 1..(Len(cols) + Len(tcols) + 1) :
        /\ \A c \in Range(cols) \cup Range(tcols) : c.id # n
        /\ \A m \in 1..(n - 1) : \E c \in Range(cols) \cup Range(tcols) : c.id = m

\* NSTableView.tableColumnWithIdentifier: the first column with the identifier
tableColumnWithIdentifier(tcols, ident) ==
    IF \E i \in 1..Len(tcols) : tcols[i].identifier = ident
    THEN tcols[CHOOSE i \in 1..Len(tcols) :
                   /\ tcols[i].identifier = ident
                   /\ \A j \in 1..(i - 1) : tcols[j].identifier # ident]
    ELSE Nil

\* NSTableView.removeTableColumn: detaches that column object
removeTableColumn(tcols, column) == ListRemove(tcols, column)

(***************************************************************************)
(* Table._add_column, as a function of the column state                    *)
(* [columns, column_identifiers, tableColumns].                            *)
(***************************************************************************)
ColState == [columns |-> columns,
             column_identifiers |-> column_identifiers,
             tableColumns |-> tableColumns]

\* The identifier map after "self.column_identifiers[accessor] = column_identifier"
MapStore(m, accessor, ident) ==
    [k \in (DOMAIN m) \cup {accessor} |-> IF k = accessor THEN ident ELSE m[k]]

\* Mutant: the identifier is never deleted
MapDeleteForgotten(m, accessor) == m

\* The identifier map after "del self.column_identifiers[accessor]"
MapDelete(m, accessor) == [k \in (DOMAIN m) \ {accessor} |-> m[k]]

_add_column(st, heading, accessor) ==
    LET column_identifier == at(accessor)
        column == [id |-> FreshColumnId(st.columns, st.tableColumns),
                   identifier |-> column_identifier,
                   dataCell |-> "TogaIconCell",
                   headerCell |-> heading]
    IN  [columns |-> Append(st.columns, column),
         column_identifiers |->
             MapStore(st.column_identifiers, accessor, column_identifier),
         tableColumns |-> Append(st.tableColumns, column)]

\* Mutant: the first tracked column is dropped, whichever was detached
TrackedRemoveFirst(cols, column) == Tail(cols)

\* Which tracked column "self.columns.remove(column)" drops
TrackedRemove(cols, column) == ListRemove(cols, column)

\* Table.remove_column past the lookup of line 189
remove_column_found(st, accessor) ==
    LET column_identifier == st.column_identifiers[accessor]
        column == tableColumnWithIdentifier(st.tableColumns, column_identifier)
    IN  [columns |-> TrackedRemove(st.columns, column),
         column_identifiers |-> MapDelete(st.column_identifiers, accessor),
         tableColumns |-> removeTableColumn(st.tableColumns, column)]

\* Table.create, lines 127-136: _add_column over zip(headings, _accessors)
RECURSIVE CreateColumns(_, _, _)
CreateColumns(st, headings, accessors) ==
    IF headings = <<>> \/ accessors = <<>>
    THEN st
    ELSE CreateColumns(_add_column(st, Head(headings), Head(accessors)),
                       Tail(headings), Tail(accessors))

\* A dict with no keys
EmptyDict == [k \in {} |-> None]

EmptyColState == [columns |-> <<>>,
                  column_identifiers |-> EmptyDict,
                  tableColumns |-> <<>>]

SeqsUpTo(S, n) == UNION {[1..k -> S] : k \in 0..n}

Op(name, args, raised) == [op |-> name, args |-> args, raised |-> raised]

(***************************************************************************)
(* Cell values.  A row attribute is a Python str, an int, a 2-tuple        *)
(* (icon, value), or an object exposing an icon attribute.                 *)
(***************************************************************************)
PyStr(s) == [t |-> "str", s |-> s]
PyInt(n) == [t |-> "int", n |-> n]
PyTuple(icon, v) == [t |-> "tuple", icon |-> icon, value |-> v]
PyObj(repr, icon) == [t |-> "obj", repr |-> repr, icon |-> icon]
Icon(name) == [t |-> "Icon", name |-> name]

Digit(d) ==
    CASE d = 0 -> "0" [] d = 1 -> "1" [] d = 2 -> "2" [] d = 3 -> "3"
      [] d = 4 -> "4" [] d = 5 -> "5" [] d = 6 -> "6" [] d = 7 -> "7"
      [] d = 8 -> "8" [] d = 9 -> "9"

RECURSIVE NatToString(_)
NatToString(n) ==
    IF n < 10 THEN Digit(n) ELSE NatToString(n \div 10) \o Digit(n % 10)

\* Python's str(value)
RECURSIVE str(_)
str(v) ==
    CASE v.t = "str" -> v.s
      [] v.t = "int" -> IF v.n < 0 THEN "-" \o NatToString(-v.n)
                                   ELSE NatToString(v.n)
      [] v.t = "None" -> "None"
      [] v.t = "obj" -> v.repr
      [] v.t = "tuple" -> "(" \o str(v.icon) \o ", " \o str(v.value) \o ")"
      [] v.t = "Icon" -> v.name

\* icon.bind(self.interface.factory): the factory's implementation of the icon
bind(icon) == [t |-> "IconImpl", of |-> icon.name]

\* Mutant: a missing attribute resolves to None, the missing value unused
ResolveValueNone(data_row, col_identifier, mv) ==
    IF col_identifier \in DOMAIN data_row THEN data_row[col_identifier] ELSE None

\* getattr(data_row, col_identifier), lines 47-56: the attribute, else the
\* interface's missing value, else the value carried by its ValueError
ResolveValue(data_row, col_identifier, mv) ==
    IF col_identifier \in DOMAIN data_row
    THEN data_row[col_identifier]
    ELSE IF mv.configured THEN mv.value ELSE mv.fallback

\* lines 60-68: split an (icon, value) tuple, else look for value.icon
SplitIcon(value) ==
    IF value.t = "tuple"
    THEN [icon |-> value.icon, value |-> value.value]
    ELSE IF value.t = "obj"
         THEN [icon |-> bind(value.icon), value |-> value]
         ELSE [icon |-> None, value |-> value]

\* lines 70-73: the attrs written on the TogaData object
RenderAttrs(data_row, col_identifier, mv) ==
    LET iv == SplitIcon(ResolveValue(data_row, col_identifier, mv))
    IN  [label |-> str(iv.value), icon |-> iv.icon]

(***************************************************************************)
(* NSIndexSet, as the delegate reads it.                                   *)
(***************************************************************************)
NSNotFound == "NSNotFound"

MinOf(S) == CHOOSE x \in S : \A y \in S : x <= y

firstIndex(S) == IF S = {} THEN NSNotFound ELSE MinOf(S)

\* Mutant: the next index is taken to be the following row
indexAfterIndex(S, i) == i + 1

indexGreaterThanIndex(S, i) ==
    IF \E j \in S : j > i THEN MinOf({j \in S : j > i}) ELSE NSNotFound

\* interface.data[i], Python's 0-based indexing
DataAt(d, i) == d[i + 1]

\* lines 86-90: the loop over range(selectedRowIndexes.count)
RECURSIVE SelectionLoop(_, _, _, _, _)
SelectionLoop(d, S, current_index, remaining, acc) ==
    IF remaining = 0
    THEN acc
    ELSE SelectionLoop(d, S, indexGreaterThanIndex(S, current_index),
                       remaining - 1, Append(acc, DataAt(d, current_index)))

SelectedRows(d, S) == SelectionLoop(d, S, firstIndex(S), Cardinality(S), <<>>)

\* Mutant: single-select keeps the last selected row
AbstractSelectionLast(d, S, multi) ==
    LET sel == SelectedRows(d, S)
    IN  IF ~multi
        THEN IF Len(sel) > 0 THEN sel[Len(sel)] ELSE None
        ELSE sel

\* lines 92-98: what is stored in interface._selection
AbstractSelection(d, S, multi) ==
    LET sel == SelectedRows(d, S)
    IN  IF ~multi
        THEN IF Len(sel) > 0 THEN sel[1] ELSE None
        ELSE sel

\* Mutant: the handler is handed the first selected row
CallbackRowFirst(d, S, active) == IF S = {} THEN None ELSE DataAt(d, MinOf(S))

\* lines 100-103: the row handed to the handler
CallbackRow(d, S, active) == IF active = -1 THEN None ELSE DataAt(d, active)

\* line 105: the handler the notification invokes
BoundHandler(iface_on_select) == iface_on_select

\* Mutant: the handler runs before the selection is stored
InvokeHandlerFirst(handler, row, old_selection, new_selection) ==
    IF handler = None
    THEN <<>>
    ELSE <<[handler |-> handler, row |-> row,
            before |-> old_selection, observed |-> old_selection]>>

\* lines 105-106: the handler runs after line 98 stored the new selection;
\* each invocation is logged with what the handler can observe
InvokeHandler(handler, row, old_selection, new_selection) ==
    IF handler = None
    THEN <<>>
    ELSE <<[handler |-> handler, row |-> row,
            before |-> old_selection, observed |-> new_selection]>>

(***************************************************************************)
(* Inputs: the rows, missing values and handlers of the application.       *)
(***************************************************************************)
RowAna == [a \in {"name"} |-> PyStr("Ana")]
RowBob == [a \in {"name", "age"} |->
              IF a = "name" THEN PyTuple(Icon("face"), PyStr("Bob")) ELSE PyInt(30)]
RowItem == [a \in {"age"} |-> PyObj("Item", Icon("star"))]

RowSet == {RowAna, RowBob, RowItem}

\* The rows of a table of n people, all different
Person(i) == [a \in {"name", "age"} |->
                 IF a = "name" THEN PyStr("Ana") ELSE PyInt(29 + i)]

People(n) == [i \in 1..n |-> Person(i)]

\* interface.missing_value: a configured value, or a ValueError whose args
\* carry the message and the value to go on with
MissingValues ==
    { [configured |-> TRUE, value |-> PyStr("-"), fallback |-> None],
      [configured |-> TRUE, value |-> PyTuple(Icon("none"), PyStr("n/a")),
       fallback |-> None],
      [configured |-> FALSE, value |-> None, fallback |-> PyStr("")] }

Handler(name) == [t |-> "handler", name |-> name]

Handlers == {Handler("h1"), Handler("h2")}

NoImpl == [t |-> "absent"]

(***************************************************************************)
(* Initial states: the widget after Table.create.                          *)
(***************************************************************************)
InitWith(headings, accessors, rows, mv, multi, handler) ==
    LET st == CreateColumns(EmptyColState, headings, accessors)
    IN  /\ columns = st.columns
        /\ column_identifiers = st.column_identifiers
        /\ tableColumns = st.tableColumns
        /\ nativeCalls = <<>>
        /\ lastOp = Op("create", <<headings, accessors>>, "none")
        /\ prevOp = "none"
        /\ pre = EmptyColState
        /\ data = rows
        /\ missing_value = mv
        /\ row_impl = [i \in 1..Len(rows) |-> NoImpl]
        /\ heap = EmptyDict
        /\ ret = None
        /\ multiple_select = multi
        /\ on_select = handler
        /\ selection = None
        /\ selectedRowIndexes = {}
        /\ selectedRow = -1
        /\ handlerCalls = <<>>

DefaultMissing == CHOOSE mv \in MissingValues : mv.configured /\ mv.value.t = "str"

\* interface._accessors: one accessor per heading, no accessor twice
AccessorLists(n) ==
    {accessors \in [1..n -> Accessors] :
        \A i, j \in 1..n : accessors[i] = accessors[j] => i = j}

InitColumns ==
    \E n \in 0..MaxInitCols :
        \E headings \in [1..n -> Headings], accessors \in AccessorLists(n) :
            InitWith(headings, accessors, <<RowAna, RowBob>>, DefaultMissing,
                     FALSE, None)

InitRender ==
    \E rows \in SeqsUpTo(RowSet, MaxRenderRows), mv \in MissingValues :
        InitWith(<<"Name", "Age">>, <<"name", "age">>, rows, mv, FALSE, None)

InitSelect ==
    \E n \in 0..MaxRows, multi \in BOOLEAN :
        InitWith(<<"Name", "Age">>, <<"name", "age">>, People(n), DefaultMissing,
                 multi, None)

InitForward ==
    \E n \in 0..MaxInitCols :
        \E accessors \in AccessorLists(n), multi \in BOOLEAN :
            InitWith([i \in 1..n |-> "Name"], accessors, <<RowAna, RowBob>>,
                     DefaultMissing, multi, Handler("h1"))

(***************************************************************************)
(* Column management: Table.add_column and Table.remove_column.            *)
(***************************************************************************)
Called(op) ==
    /\ lastOp' = op
    /\ prevOp' = lastOp.op
    /\ pre' = ColState

SetColState(st) ==
    /\ columns' = st.columns
    /\ column_identifiers' = st.column_identifiers
    /\ tableColumns' = st.tableColumns

\* lines 184-186
add_column_result(st, heading, accessor) ==
    [st |-> _add_column(st, heading, accessor),
     raised |-> "none",
     calls |-> <<"addTableColumn", "sizeToFit">>]

\* Mutant: an unknown accessor is skipped silently and the table resized
remove_column_lenient(st, accessor) ==
    IF accessor \notin DOMAIN st.column_identifiers
    THEN [st |-> st, raised |-> "none", calls |-> <<"sizeToFit">>]
    ELSE [st |-> remove_column_found(st, accessor),
          raised |-> "none",
          calls |-> <<"removeTableColumn", "sizeToFit">>]

\* lines 188-197: the lookup of line 189 raises KeyError before anything is
\* touched; list.remove raises ValueError when the column is not tracked
remove_column_result(st, accessor) ==
    IF accessor \notin DOMAIN st.column_identifiers
    THEN [st |-> st, raised |-> "KeyError", calls |-> <<>>]
    ELSE LET column == tableColumnWithIdentifier(
                           st.tableColumns, st.column_identifiers[accessor])
             done == remove_column_found(st, accessor)
         IN  IF column \notin Range(st.columns)
             THEN [st |-> [st EXCEPT !.tableColumns = done.tableColumns],
                   raised |-> "ValueError",
                   calls |-> <<"removeTableColumn">>]
             ELSE [st |-> done,
                   raised |-> "none",
                   calls |-> <<"removeTableColumn", "sizeToFit">>]

add_column ==
    \E heading \in Headings, accessor \in Accessors :
        LET r == add_column_result(ColState, heading, accessor)
        IN  /\ Len(columns) < MaxCols
            /\ SetColState(r.st)
            /\ nativeCalls' = r.calls
            /\ Called(Op("add_column", <<heading, accessor>>, r.raised))
            /\ UNCHANGED <<ifaceVars, renderVars, selVars>>

remove_column ==
    \E accessor \in Accessors :
        LET r == remove_column_result(ColState, accessor)
        IN  /\ SetColState(r.st)
            /\ nativeCalls' = r.calls
            /\ Called(Op("remove_column", <<accessor>>, r.raised))
            /\ UNCHANGED <<ifaceVars, renderVars, selVars>>

(***************************************************************************)
(* Mutation forwarding, lines 147-160: every handler is reloadData().      *)
(***************************************************************************)
Items == {RowAna, RowBob}

\* Mutant: the handler does not reload
reloadSkipped == <<>>

\* self.table.reloadData()
reloadData == <<"reloadData">>

change_source ==
    \E source \in {<<>>, <<RowAna>>} :
        /\ nativeCalls' = reloadData
        /\ Called(Op("change_source", <<source>>, "none"))
        /\ UNCHANGED <<colVars, ifaceVars, renderVars, selVars>>

insert ==
    \E index \in 0..1, item \in Items :
        /\ nativeCalls' = reloadData
        /\ Called(Op("insert", <<index, item>>, "none"))
        /\ UNCHANGED <<colVars, ifaceVars, renderVars, selVars>>

change ==
    \E item \in Items :
        /\ nativeCalls' = reloadData
        /\ Called(Op("change", <<item>>, "none"))
        /\ UNCHANGED <<colVars, ifaceVars, renderVars, selVars>>

remove ==
    \E item \in Items :
        /\ nativeCalls' = reloadData
        /\ Called(Op("remove", <<item>>, "none"))
        /\ UNCHANGED <<colVars, ifaceVars, renderVars, selVars>>

clear ==
    /\ nativeCalls' = reloadData
    /\ Called(Op("clear", <<>>, "none"))
    /\ UNCHANGED <<colVars, ifaceVars, renderVars, selVars>>

(***************************************************************************)
(* Data source: TogaTable.tableView_objectValueForTableColumn_row_.        *)
(***************************************************************************)
\* lines 27-33: the row's _impl dict, created empty when the row has none
ImplOf(impl) == IF impl = NoImpl THEN EmptyDict ELSE impl

\* TogaData.alloc().init(): a new object, named in the model by the cell it
\* was made for and the number of objects made for that cell before it
NewObject(h, row, col_identifier) ==
    [row |-> row, col |-> col_identifier,
     n |-> Cardinality({o \in DOMAIN h : o.row = row /\ o.col = col_identifier}) + 1]

\* lines 37-44: the cached TogaData of the column, else a new one
DatumFor(impl, h, row, col_identifier) ==
    IF col_identifier \in DOMAIN ImplOf(impl)
    THEN ImplOf(impl)[col_identifier]
    ELSE NewObject(h, row, col_identifier)

NoAttrs == [label |-> "", icon |-> None]

\* Mutant: the attrs are written only when the object is created
AttrsAfterCached(old_attrs, data_row, col_identifier, mv) ==
    IF old_attrs # NoAttrs
    THEN old_attrs
    ELSE RenderAttrs(data_row, col_identifier, mv)

\* lines 70-73: the attrs the returned object carries after the call
AttrsAfter(old_attrs, data_row, col_identifier, mv) ==
    RenderAttrs(data_row, col_identifier, mv)

tableView_objectValueForTableColumn_row_ ==
    \E row \in 0..(Len(data) - 1), c \in 1..Len(tableColumns) :
        LET data_row == DataAt(data, row)
            impl == row_impl[row + 1]
            col_identifier == str_objc(tableColumns[c].identifier)
            datum == DatumFor(impl, heap, row, col_identifier)
            hit == datum \in DOMAIN heap
            old == IF hit THEN heap[datum] ELSE NoAttrs
            new == AttrsAfter(old, data_row, col_identifier, missing_value)
        IN  /\ row_impl' = [row_impl EXCEPT
                    ![row + 1] = MapStore(ImplOf(impl), col_identifier, datum)]
            /\ heap' = MapStore(heap, datum, new)
            /\ ret' = datum
            /\ nativeCalls' = <<>>
            /\ Called([op |-> "tableView_objectValueForTableColumn_row_",
                       args |-> <<row, col_identifier>>,
                       raised |-> "none",
                       hit |-> hit,
                       old |-> old])
            /\ UNCHANGED <<colVars, ifaceVars, selVars>>

\* The application changes the attributes of a row in place (setattr, delattr)
RowSetAttrs ==
    \E row \in 0..(Len(data) - 1), attrs \in RowSet :
        /\ attrs # DataAt(data, row)
        /\ data' = [data EXCEPT ![row + 1] = attrs]
        /\ nativeCalls' = <<>>
        /\ Called(Op("RowSetAttrs", <<row>>, "none"))
        /\ UNCHANGED <<colVars, missing_value, multiple_select, on_select,
                       renderVars, selVars>>

(***************************************************************************)
(* Delegate: TogaTable.tableViewSelectionDidChange_, lines 85-106, called  *)
(* by the toolkit once its selection has changed, and Table.set_on_select. *)
(***************************************************************************)
tableViewSelectionDidChange_ ==
    \E S \in SUBSET (0..(Len(data) - 1)) :
        \E active \in IF S = {} THEN {-1} ELSE S :
            LET new_selection == AbstractSelection(data, S, multiple_select)
                selected == CallbackRow(data, S, active)
            IN  /\ selectedRowIndexes' = S
                /\ selectedRow' = active
                /\ selection' = new_selection
                /\ handlerCalls' = InvokeHandler(BoundHandler(on_select), selected,
                                                 selection, new_selection)
                /\ nativeCalls' = <<>>
                /\ Called(Op("tableViewSelectionDidChange_", <<>>, "none"))
                /\ UNCHANGED <<colVars, ifaceVars, renderVars>>

\* lines 162-163: pass
set_on_select ==
    \E handler \in Handlers \cup {None} :
        /\ nativeCalls' = <<>>
        /\ Called(Op("set_on_select", <<handler>>, "none"))
        /\ UNCHANGED <<colVars, ifaceVars, renderVars, selVars>>

\* The application binds a handler on the interface object
BindOnSelect ==
    \E handler \in Handlers \cup {None} :
        /\ handler # on_select
        /\ on_select' = handler
        /\ nativeCalls' = <<>>
        /\ Called(Op("BindOnSelect", <<handler>>, "none"))
        /\ UNCHANGED <<colVars, data, missing_value, multiple_select,
                       renderVars, selVars>>

(***************************************************************************)
(* Specifications.                                                         *)
(***************************************************************************)
NextColumns == add_column \/ remove_column

SpecColumns == InitColumns /\ [][NextColumns]_vars

NextRender ==
    \/ tableView_objectValueForTableColumn_row_
    \/ RowSetAttrs
    \/ change
    \/ clear

SpecRender == InitRender /\ [][NextRender]_vars

NextSelect ==
    \/ tableViewSelectionDidChange_
    \/ set_on_select
    \/ BindOnSelect

SpecSelect == InitSelect /\ [][NextSelect]_vars

NextForward ==
    \/ change_source
    \/ insert
    \/ change
    \/ remove
    \/ clear
    \/ tableViewSelectionDidChange_

SpecForward == InitForward /\ [][NextForward]_vars

(***************************************************************************)
(* Column management claims, checked under SpecColumns.                    *)
(***************************************************************************)
\* The identifier map, the tracked list and the native columns of a column
\* state are in 1:1 correspondence
Correspondence(st) ==
    /\ st.columns = st.tableColumns
    /\ \A i, j \in 1..Len(st.tableColumns) :
           st.tableColumns[i].id = st.tableColumns[j].id => i = j
    /\ \A k \in DOMAIN st.column_identifiers :
           Cardinality({i \in 1..Len(st.tableColumns) :
               st.tableColumns[i].identifier = st.column_identifiers[k]}) = 1
    /\ \A i \in 1..Len(st.tableColumns) :
           Cardinality({k \in DOMAIN st.column_identifiers :
               st.column_identifiers[k] = st.tableColumns[i].identifier}) = 1

Distinct(seq) == \A i, j \in 1..Len(seq) : seq[i] = seq[j] => i = j

\* C1 as stated: after create and after any sequence of add_column and
\* remove_column calls, the identifier map, the tracked column list and the
\* native table's columns are in 1:1 correspondence.
C1_AlwaysInCorrespondence == Correspondence(ColState)

\* C1 amended: create over pairwise distinct accessors establishes the 1:1
\* correspondence, and every remove_column call (failed ones included) and
\* every add_column call whose accessor is not a key of the identifier map
\* keeps it.
C1_CorrespondenceKept ==
    /\ [](lastOp.op = "create" /\ Distinct(lastOp.args[2])
            => Correspondence(ColState))
    /\ [][(/\ Correspondence(ColState)
           /\ ~(/\ lastOp'.op = "add_column"
                /\ lastOp'.args[2] \in DOMAIN column_identifiers))
          => Correspondence(ColState')]_vars

\* C1 witness: an add_column of a new accessor next to an existing column,
\* after a remove_column, with the correspondence intact
C1_Witness ==
    /\ lastOp.op = "add_column"
    /\ prevOp = "remove_column"
    /\ lastOp.args[2] \notin DOMAIN pre.column_identifiers
    /\ Correspondence(pre)
    /\ Len(columns) >= 2
    /\ Correspondence(ColState)

\* C2 as stated: for every accessor a, add_column(heading, a) immediately
\* followed by remove_column(a) leaves the tracked list, the identifier map
\* and the native columns as they were before the add.
C2_AddRemoveRestores ==
    [][(/\ lastOp.op = "add_column"
        /\ lastOp'.op = "remove_column"
        /\ lastOp'.args[1] = lastOp.args[2])
       => ColState' = pre]_vars

\* C2 amended: for every accessor a that is neither a key of the identifier
\* map nor the identifier of a column of the native table,
\* add_column(heading, a) immediately followed by remove_column(a) leaves the
\* tracked list (same columns, same order), the identifier map and the native
\* columns as they were before the add.
C2_AddRemoveRestoresNew ==
    [][(/\ lastOp.op = "add_column"
        /\ lastOp'.op = "remove_column"
        /\ lastOp'.args[1] = lastOp.args[2]
        /\ lastOp.args[2] \notin DOMAIN pre.column_identifiers
        /\ \A i \in 1..Len(pre.tableColumns) :
               pre.tableColumns[i].identifier # at(lastOp.args[2]))
       => ColState' = pre]_vars

\* C2 witness: remove_column(a) right after add_column(_, a) with a new to a
\* table of at least one column: the added column was the last one and the
\* only one with its identifier, and the columns before it are back
C2_Witness ==
    /\ lastOp.op = "remove_column"
    /\ lastOp.raised = "none"
    /\ prevOp = "add_column"
    /\ Len(pre.columns) >= 2
    /\ pre.columns[Len(pre.columns)].identifier = at(lastOp.args[1])
    /\ \A i \in 1..(Len(pre.columns) - 1) :
           pre.columns[i].identifier # at(lastOp.args[1])
    /\ columns = SubSeq(pre.columns, 1, Len(pre.columns) - 1)
    /\ tableColumns = columns
    /\ DOMAIN column_identifiers = (DOMAIN pre.column_identifiers) \ {lastOp.args[1]}

\* C3: remove_column(a) for an accessor a that is not in the identifier map
\* raises a lookup error and leaves the tracked list, the identifier map and
\* the native columns unchanged, with no sizeToFit issued.
C3_RemoveUnknownFails ==
    (lastOp.op = "remove_column" /\ lastOp.args[1] \notin DOMAIN pre.column_identifiers)
        => /\ lastOp.raised = "KeyError"
           /\ ColState = pre
           /\ \A i \in 1..Len(nativeCalls) : nativeCalls[i] # "sizeToFit"

\* C3 witness: a second remove_column of an accessor already removed, on a
\* table that still has a column
C3_Witness ==
    /\ lastOp.op = "remove_column"
    /\ lastOp.raised = "KeyError"
    /\ prevOp = "remove_column"
    /\ Len(columns) >= 1
    /\ ColState = pre

(***************************************************************************)
(* Data source claims, checked under SpecRender.                           *)
(***************************************************************************)
Rendered == lastOp.op = "tableView_objectValueForTableColumn_row_"

ReloadOps == {"change_source", "insert", "change", "remove", "clear"}

\* The value component of a cell value: of an (icon, value) pair, the value
ValuePart(v) == IF v.t = "tuple" THEN v.value ELSE v

\* The icon of a cell value: of a pair its icon, of a value with an icon
\* attribute that icon bound to the factory, else none
IconPart(v) ==
    IF v.t = "tuple" THEN v.icon
    ELSE IF v.t = "obj" THEN [t |-> "IconImpl", of |-> v.icon.name]
    ELSE None

\* C4: the render object returned for (row, column) has as label the string
\* form of the row's attribute (its value component when it is an (icon,
\* value) pair) when the row has the attribute named by the column's
\* accessor, and that of the configured missing value exactly when it lacks
\* it; with no missing value configured, that of the value the interface's
\* ValueError carries.
C4_LabelOfResolvedValue ==
    Rendered =>
        LET data_row == data[lastOp.args[1] + 1]
            accessor == lastOp.args[2]
            label == heap[ret].label
        IN  /\ accessor \in DOMAIN data_row
                => label = str(ValuePart(data_row[accessor]))
            /\ (accessor \notin DOMAIN data_row /\ missing_value.configured)
                => label = str(ValuePart(missing_value.value))
            /\ (accessor \notin DOMAIN data_row /\ ~missing_value.configured)
                => label = str(ValuePart(missing_value.fallback))

\* C4 witness: the row {name: "Ana"}, which has no age, with a dash as the
\* configured missing value, asked for its column "age", shows the dash
C4_Witness ==
    /\ Rendered
    /\ lastOp.args = <<0, "age">>
    /\ data[1] = RowAna
    /\ missing_value.configured
    /\ missing_value.value = PyStr("-")
    /\ heap[ret].label = "-"

\* C9: the label and icon a call returns are those of the row's attribute at
\* the time of the call, whatever was cached before any reload or attribute
\* change; at most one render object exists per (row, column), and every call
\* for the pair returns that object.
C9_FreshAttrsOneObject ==
    /\ Rendered =>
           LET row == lastOp.args[1]
               accessor == lastOp.args[2]
               data_row == data[row + 1]
               value == IF accessor \in DOMAIN data_row
                        THEN data_row[accessor]
                        ELSE IF missing_value.configured
                             THEN missing_value.value
                             ELSE missing_value.fallback
           IN  /\ heap[ret] = [label |-> str(ValuePart(value)),
                               icon |-> IconPart(value)]
               /\ ret.row = row /\ ret.col = accessor
               /\ row_impl[row + 1][accessor] = ret
    /\ \A o1, o2 \in DOMAIN heap :
           (o1.row = o2.row /\ o1.col = o2.col) => o1 = o2

\* C9 witness: a call right after a reload finds the cell's cached object and
\* returns it with attrs that differ from those cached before the reload
C9_Witness ==
    /\ Rendered
    /\ prevOp \in ReloadOps
    /\ lastOp.hit
    /\ lastOp.old # NoAttrs
    /\ lastOp.old # heap[ret]

(***************************************************************************)
(* Selection claims, checked under SpecSelect.                             *)
(***************************************************************************)
Notified == lastOp.op = "tableViewSelectionDidChange_"

MaxOf(S) == CHOOSE x \in S : \A y \in S : y <= x

\* The k-th selected index, in ascending order
KthIndex(S, k) == CHOOSE i \in S : Cardinality({j \in S : j < i}) = k - 1

\* C5: with multiple-select disabled, after a selection-changed notification
\* the abstract selection is the data row at the lowest selected index, and
\* none when no row is selected.
C5_SingleSelectFirstRow ==
    (Notified /\ ~multiple_select) =>
        IF selectedRowIndexes = {}
        THEN selection = None
        ELSE selection = data[MinOf(selectedRowIndexes) + 1]

\* C5 witness: rows 1 and 2 of three are selected and the selection is row 1
C5_Witness ==
    /\ Notified
    /\ ~multiple_select
    /\ selectedRowIndexes = {1, 2}
    /\ selection = data[2]
    /\ data[2] # data[3]

\* C6: with multiple-select enabled, after a selection-changed notification
\* the abstract selection is the sequence of the data rows at exactly the
\* selected indices, each once, in ascending index order, and the empty
\* sequence when no row is selected.
C6_MultiSelectAscending ==
    (Notified /\ multiple_select) =>
        /\ Len(selection) = Cardinality(selectedRowIndexes)
        /\ \A k \in 1..Len(selection) :
               selection[k] = data[KthIndex(selectedRowIndexes, k) + 1]

\* C6 witness: indices {0, 2} give the two rows at 0 and 2, in that order
C6_Witness ==
    /\ Notified
    /\ multiple_select
    /\ selectedRowIndexes = {0, 2}
    /\ selection = <<data[1], data[3]>>
    /\ data[2] # data[3]

\* C7: a selection-changed notification invokes the handler bound on the
\* interface at that moment exactly once, with the data row at the toolkit's
\* active-row index or none when that index is -1, whatever the
\* multiple-select flag; with no handler bound nothing is invoked and the
\* abstract selection is still updated.
C7_BoundHandlerOnce ==
    Notified =>
        /\ on_select # None =>
               /\ Len(handlerCalls) = 1
               /\ handlerCalls[1].handler = on_select
               /\ handlerCalls[1].row =
                      IF selectedRow = -1 THEN None ELSE data[selectedRow + 1]
        /\ on_select = None =>
               /\ handlerCalls = <<>>
               /\ IF multiple_select
                  THEN Len(selection) = Cardinality(selectedRowIndexes)
                  ELSE (selection = None) <=> (selectedRowIndexes = {})

\* C7 witness: set_on_select was called, then the notification ran the
\* interface's handler with the active row, which is not the first selected
C7_Witness ==
    /\ Notified
    /\ prevOp = "set_on_select"
    /\ multiple_select
    /\ on_select = Handler("h1")
    /\ Len(handlerCalls) = 1
    /\ handlerCalls[1].handler = Handler("h1")
    /\ selectedRowIndexes = {0, 1}
    /\ selectedRow = 1
    /\ handlerCalls[1].row = data[2]

\* C10: within one notification the abstract selection is stored before the
\* handler is invoked: what the handler observes is the selection of that
\* notification's selected indices.
C10_SelectionBeforeHandler ==
    (Notified /\ handlerCalls # <<>>) =>
        /\ handlerCalls[1].observed = selection
        /\ IF multiple_select
           THEN /\ Len(handlerCalls[1].observed) = Cardinality(selectedRowIndexes)
                /\ \A k \in 1..Cardinality(selectedRowIndexes) :
                       handlerCalls[1].observed[k] =
                           data[KthIndex(selectedRowIndexes, k) + 1]
           ELSE handlerCalls[1].observed =
                    IF selectedRowIndexes = {}
                    THEN None
                    ELSE data[MinOf(selectedRowIndexes) + 1]

\* C10 witness: a second notification, in single-select, whose handler sees
\* the new row and not the row of the notification before
C10_Witness ==
    /\ Notified
    /\ prevOp = "tableViewSelectionDidChange_"
    /\ ~multiple_select
    /\ Len(data) >= 2
    /\ handlerCalls # <<>>
    /\ handlerCalls[1].before = data[1]
    /\ handlerCalls[1].observed = data[2]
    /\ selectedRowIndexes = {1}

(***************************************************************************)
(* Mutation forwarding claim, checked under SpecForward.                   *)
(***************************************************************************)
\* C8: each call of change_source, insert, change, remove and clear issues
\* reloadData to the native table exactly once and leaves the tracked column
\* list, the identifier map, the native columns and the abstract selection
\* unchanged.
C8_ReloadOnceNothingElse ==
    [][lastOp'.op \in ReloadOps =>
          /\ Cardinality({i \in 1..Len(nativeCalls') :
                 nativeCalls'[i] = "reloadData"}) = 1
          /\ Len(nativeCalls') = 1
          /\ UNCHANGED <<columns, column_identifiers, tableColumns, selection>>]_vars

\* C8 witness: an insert on a table with columns and a selected row
C8_Witness ==
    /\ lastOp.op = "insert"
    /\ prevOp = "tableViewSelectionDidChange_"
    /\ ~multiple_select
    /\ selectedRowIndexes = {1}
    /\ selection = data[2]
    /\ Len(columns) >= 1
    /\ nativeCalls = <<"reloadData">>

============================================================================
